---- MODULE Spec2Model ----
(***************************************************************************)
(* Model of the accounts engine: src/src/account.rs (the Account state     *)
(* machine), src/src/engine.rs (the Engine that routes a batch of          *)
(* transactions to per-client accounts and collects the errors) and        *)
(* src/src/transaction.rs (the Transaction record).                        *)
(*                                                                         *)
(* Amounts are f64 in the source; they are modelled as exact integers, so  *)
(* rounding, NaN and infinities are outside the model.                     *)
(***************************************************************************)
EXTENDS Integers, Sequences, FiniteSets, TLC

\* ------------------------------------------------------------------ bounds
\* Longest batch fed to Engine::apply_transactions.
MaxBatch == 4

\* Client identifiers are 1..NumClients (u16 in the source).
NumClients == 2

\* Transaction identifiers are 1..NumTx (u32 in the source).
NumTx == 2

\* Amounts carried by a record range over -MaxNegAmount..MaxAmount (f64, signed).
MaxNegAmount == 1

MaxAmount == 1

Clients == 1..NumClients

TxIds == 1..NumTx

Amounts == (0 - MaxNegAmount)..MaxAmount

\* ------------------------------------------------------- transaction.rs
\* enum Type
Type == {"Deposit", "Withdrawal", "Dispute", "Resolve", "Chargeback"}

\* Option<f64>::None
None == [is_some |-> FALSE, val |-> 0]

\* Option<f64>::Some(a)
Some(a) == [is_some |-> TRUE, val |-> a]

\* Every value of the amount field
AmountOpts == {None} \cup {Some(a) : a \in Amounts}

\* struct Transaction { type, client, tx, amount }; the records that refer to
\* an earlier transaction carry no amount (the code never reads it)
Transaction ==
    [type : {"Deposit", "Withdrawal"}, client : Clients, tx : TxIds, amount : AmountOpts]
    \cup [type : {"Dispute", "Resolve", "Chargeback"}, client : Clients, tx : TxIds,
          amount : {None}]

\* Option::unwrap on a Some value (the value carried)
unwrap(opt) == opt.val

\* ------------------------------------------------------------ account.rs
\* Result<(), Error>: Ok(()) and the three Error variants
Ok == [kind |-> "Ok", requested |-> 0, available |-> 0]

AccountLocked == [kind |-> "AccountLocked", requested |-> 0, available |-> 0]

MissingAmount == [kind |-> "MissingAmount", requested |-> 0, available |-> 0]

InsufficientFunds(requested, available) ==
    [kind |-> "InsufficientFunds", requested |-> requested, available |-> available]

\* Account::new
new(client) ==
    [client |-> client, available |-> 0, held |-> 0, total |-> 0,
     locked |-> FALSE, transactions |-> <<>>]

\* HashMap::insert (insert or overwrite the entry of key k)
insert(m, k, v) == [x \in (DOMAIN m) \cup {k} |-> IF x = k THEN v ELSE m[x]]

\* HashMap::remove (the map without key k)
remove(m, k) == [x \in (DOMAIN m) \ {k} |-> m[x]]

\* Variant of deposit: an entry already tracked under the same tx is kept
\* instead of being overwritten.
deposit_keeps_existing(acc, transaction) ==
    IF ~transaction.amount.is_some
    THEN [acc |-> acc, res |-> MissingAmount]
    ELSE LET amount == unwrap(transaction.amount) IN
         [acc |-> [acc EXCEPT !.available = @ + amount,
                              !.total = @ + amount,
                              !.transactions =
                                  IF transaction.tx \in DOMAIN @ THEN @
                                  ELSE insert(@, transaction.tx, transaction)],
          res |-> Ok]

\* Variant of deposit: an absent amount is taken as zero.
deposit_missing_as_zero(acc, transaction) ==
    LET amount == IF transaction.amount.is_some THEN unwrap(transaction.amount) ELSE 0 IN
    [acc |-> [acc EXCEPT !.available = @ + amount,
                         !.total = @ + amount,
                         !.transactions = insert(@, transaction.tx, transaction)],
     res |-> Ok]

\* Account::deposit
deposit(acc, transaction) ==
    IF ~transaction.amount.is_some
    THEN [acc |-> acc, res |-> MissingAmount]
    ELSE LET amount == unwrap(transaction.amount) IN
         [acc |-> [acc EXCEPT !.available = @ + amount,
                              !.total = @ + amount,
                              !.transactions = insert(@, transaction.tx, transaction)],
          res |-> Ok]

\* Variant of withdrawal: the comparison is >= instead of >.
withdrawal_strict(acc, transaction) ==
    IF ~transaction.amount.is_some
    THEN [acc |-> acc, res |-> MissingAmount]
    ELSE LET requested == unwrap(transaction.amount) IN
         IF requested >= acc.available
         THEN [acc |-> acc, res |-> InsufficientFunds(requested, acc.available)]
         ELSE [acc |-> [acc EXCEPT !.available = @ - requested,
                                   !.total = @ - requested,
                                   !.transactions = insert(@, transaction.tx, transaction)],
               res |-> Ok]

\* Variant of withdrawal: a withdrawal refused for insufficient funds is
\* tracked all the same.
withdrawal_tracks_refused(acc, transaction) ==
    IF ~transaction.amount.is_some
    THEN [acc |-> acc, res |-> MissingAmount]
    ELSE LET requested == unwrap(transaction.amount) IN
         IF requested > acc.available
         THEN [acc |-> [acc EXCEPT !.transactions =
                                       insert(@, transaction.tx, transaction)],
               res |-> InsufficientFunds(requested, acc.available)]
         ELSE [acc |-> [acc EXCEPT !.available = @ - requested,
                                   !.total = @ - requested,
                                   !.transactions = insert(@, transaction.tx, transaction)],
               res |-> Ok]

\* Account::withdrawal
withdrawal(acc, transaction) ==
    IF ~transaction.amount.is_some
    THEN [acc |-> acc, res |-> MissingAmount]
    ELSE LET requested == unwrap(transaction.amount) IN
         IF requested > acc.available
         THEN [acc |-> acc, res |-> InsufficientFunds(requested, acc.available)]
         ELSE [acc |-> [acc EXCEPT !.available = @ - requested,
                                   !.total = @ - requested,
                                   !.transactions = insert(@, transaction.tx, transaction)],
               res |-> Ok]

\* Variant of dispute: a disputed withdrawal is held without raising total.
dispute_withdrawal_keeps_total(acc, tx) ==
    IF tx \notin DOMAIN acc.transactions
    THEN acc
    ELSE LET transaction == acc.transactions[tx]
             amount == unwrap(transaction.amount) IN
         CASE transaction.type = "Deposit" ->
                [acc EXCEPT !.held = @ + amount, !.available = @ - amount]
           [] OTHER ->
                [acc EXCEPT !.held = @ + amount]

\* Variant of dispute: the disputed entry is taken out of the map.
dispute_untracks(acc, tx) ==
    IF tx \notin DOMAIN acc.transactions
    THEN acc
    ELSE LET transaction == acc.transactions[tx]
             amount == unwrap(transaction.amount) IN
         CASE transaction.type = "Deposit" ->
                [acc EXCEPT !.held = @ + amount, !.available = @ - amount,
                            !.transactions = remove(@, tx)]
           [] transaction.type = "Withdrawal" ->
                [acc EXCEPT !.held = @ + amount, !.total = @ + amount,
                            !.transactions = remove(@, tx)]
           [] OTHER ->
                [acc EXCEPT !.held = @ + amount]

\* Account::dispute
dispute(acc, tx) ==
    IF tx \notin DOMAIN acc.transactions
    THEN acc
    ELSE LET transaction == acc.transactions[tx]
             amount == unwrap(transaction.amount) IN
         CASE transaction.type = "Deposit" ->
                [acc EXCEPT !.held = @ + amount, !.available = @ - amount]
           [] transaction.type = "Withdrawal" ->
                [acc EXCEPT !.held = @ + amount, !.total = @ + amount]
           [] OTHER ->
                [acc EXCEPT !.held = @ + amount]

\* Variant of resolve: the released funds are taken from total as well.
resolve_lowers_total(acc, tx) ==
    IF tx \notin DOMAIN acc.transactions
    THEN acc
    ELSE LET transaction == acc.transactions[tx]
             amount == unwrap(transaction.amount) IN
         [acc EXCEPT !.transactions = remove(@, tx),
                     !.held = @ - amount,
                     !.total = @ - amount,
                     !.available = @ + amount]

\* Variant of resolve: the funds are released but the entry stays tracked.
resolve_keeps_entry(acc, tx) ==
    IF tx \notin DOMAIN acc.transactions
    THEN acc
    ELSE LET transaction == acc.transactions[tx]
             amount == unwrap(transaction.amount) IN
         [acc EXCEPT !.held = @ - amount,
                     !.available = @ + amount]

\* Account::resolve
resolve(acc, tx) ==
    IF tx \notin DOMAIN acc.transactions
    THEN acc
    ELSE LET transaction == acc.transactions[tx]
             amount == unwrap(transaction.amount) IN
         [acc EXCEPT !.transactions = remove(@, tx),
                     !.held = @ - amount,
                     !.available = @ + amount]

\* Variant of chargeback: the funds are removed but the account is not locked.
chargeback_no_lock(acc, tx) ==
    IF tx \notin DOMAIN acc.transactions
    THEN acc
    ELSE LET transaction == acc.transactions[tx]
             amount == unwrap(transaction.amount) IN
         IF transaction.type = "Withdrawal"
         THEN [acc EXCEPT !.transactions = remove(@, tx)]
         ELSE [acc EXCEPT !.transactions = remove(@, tx),
                          !.held = @ - amount,
                          !.total = @ - amount]

\* Variant of chargeback: a chargeback that finds no transaction locks the
\* account.
chargeback_unknown_locks(acc, tx) ==
    IF tx \notin DOMAIN acc.transactions
    THEN [acc EXCEPT !.locked = TRUE]
    ELSE LET transaction == acc.transactions[tx]
             amount == unwrap(transaction.amount) IN
         IF transaction.type = "Withdrawal"
         THEN [acc EXCEPT !.transactions = remove(@, tx)]
         ELSE [acc EXCEPT !.transactions = remove(@, tx),
                          !.held = @ - amount,
                          !.total = @ - amount,
                          !.locked = TRUE]

\* Variant of chargeback: a Withdrawal is charged back like a Deposit.
chargeback_any_type(acc, tx) ==
    IF tx \notin DOMAIN acc.transactions
    THEN acc
    ELSE LET transaction == acc.transactions[tx]
             amount == unwrap(transaction.amount) IN
         [acc EXCEPT !.transactions = remove(@, tx),
                     !.held = @ - amount,
                     !.total = @ - amount,
                     !.locked = TRUE]

\* Account::chargeback
chargeback(acc, tx) ==
    IF tx \notin DOMAIN acc.transactions
    THEN acc
    ELSE LET transaction == acc.transactions[tx]
             amount == unwrap(transaction.amount) IN
         IF transaction.type = "Withdrawal"
         THEN [acc EXCEPT !.transactions = remove(@, tx)]
         ELSE [acc EXCEPT !.transactions = remove(@, tx),
                          !.held = @ - amount,
                          !.total = @ - amount,
                          !.locked = TRUE]

\* Variant of apply_transaction: the locked check gates deposits and
\* withdrawals only.
apply_transaction_lock_gates_funds_only(acc, transaction) ==
    CASE transaction.type = "Deposit" ->
           IF acc.locked THEN [acc |-> acc, res |-> AccountLocked]
           ELSE deposit(acc, transaction)
      [] transaction.type = "Withdrawal" ->
           IF acc.locked THEN [acc |-> acc, res |-> AccountLocked]
           ELSE withdrawal(acc, transaction)
      [] transaction.type = "Dispute" ->
           [acc |-> dispute(acc, transaction.tx), res |-> Ok]
      [] transaction.type = "Resolve" ->
           [acc |-> resolve(acc, transaction.tx), res |-> Ok]
      [] transaction.type = "Chargeback" ->
           [acc |-> chargeback(acc, transaction.tx), res |-> Ok]

\* Account::apply_transaction
apply_transaction(acc, transaction) ==
    IF acc.locked
    THEN [acc |-> acc, res |-> AccountLocked]
    ELSE CASE transaction.type = "Deposit" -> deposit(acc, transaction)
           [] transaction.type = "Withdrawal" -> withdrawal(acc, transaction)
           [] transaction.type = "Dispute" ->
                [acc |-> dispute(acc, transaction.tx), res |-> Ok]
           [] transaction.type = "Resolve" ->
                [acc |-> resolve(acc, transaction.tx), res |-> Ok]
           [] transaction.type = "Chargeback" ->
                [acc |-> chargeback(acc, transaction.tx), res |-> Ok]

\* ------------------------------------------------------------- engine.rs
\* Variant of or_insert_with: the lookup ignores the key and takes an
\* account that is already in the map.
or_insert_with_any_key(accs, client) ==
    IF DOMAIN accs # {} THEN accs[CHOOSE c \in DOMAIN accs : TRUE] ELSE new(client)

\* Variant of or_insert_with: a new account is made on every lookup.
or_insert_with_always_new(accs, client) == new(client)

\* accounts.entry(client).or_insert_with(|| Account::new(client)): the
\* account the transaction is applied to
or_insert_with(accs, client) ==
    IF client \in DOMAIN accs THEN accs[client] ELSE new(client)

\* Variant of readable_entry: the enumerate() index is reported as is.
readable_entry_zero_based(entry) == entry

\* enumerate() index turned into the readable entry number
readable_entry(entry) == entry + 1

\* filter_map(|(entry, res)| res.err().map(|e| (entry, e))) followed by
\* collect(): the error vector after one more mapped item
filter_map(collected, entry, res) ==
    IF res = Ok THEN collected ELSE Append(collected, <<entry, res>>)

VARIABLES
    accounts,   \* Engine.accounts: client -> Account
    entry,      \* number of items the enumerate() iterator has yielded
    errs,       \* the Vec<(usize, Error)> being collected
    pc,         \* "iter" while the batch is consumed, "done" once collected
    last,       \* history: the transaction applied by the latest step
    lastRes,    \* history: what apply_transaction returned for it
    pre,        \* history: the account it was applied to, before the call
    prior,      \* history: the transaction applied by the step before that
    priorPre,   \* history: the account prior was applied to, before the call
    results,    \* history: what apply_transaction returned, per entry
    seen,       \* history: the clients of the transactions consumed so far
    solo        \* history: per client, Account::new(client) after that
                \* client's transactions alone, in batch order

vars ==
    <<accounts, entry, errs, pc, last, lastRes, pre, prior, priorPre, results,
      seen, solo>>

\* No transaction applied yet
NoTx == [type |-> "NoTx", client |-> 0, tx |-> 0, amount |-> None]

\* Engine::new, before apply_transactions has consumed anything
Init ==
    /\ accounts = <<>>
    /\ entry = 0
    /\ errs = <<>>
    /\ pc = "iter"
    /\ last = NoTx
    /\ lastRes = Ok
    /\ pre = new(0)
    /\ prior = NoTx
    /\ priorPre = new(0)
    /\ results = <<>>
    /\ seen = {}
    /\ solo = <<>>

\* One item of the batch through the map/filter_map closure of
\* Engine::apply_transactions.  main.rs returns before the engine runs when
\* a record fails to deserialize, so every item is an Ok(transaction).
apply_transactions_item(transaction) ==
    /\ pc = "iter"
    /\ entry < MaxBatch
    /\ LET acc == or_insert_with(accounts, transaction.client)
           r == apply_transaction(acc, transaction) IN
       /\ accounts' = insert(accounts, transaction.client, r.acc)
       /\ errs' = filter_map(errs, readable_entry(entry), r.res)
       /\ pre' = acc
       /\ lastRes' = r.res
       /\ results' = Append(results, r.res)
    /\ entry' = entry + 1
    /\ last' = transaction
    /\ prior' = last
    /\ priorPre' = pre
    /\ seen' = seen \cup {transaction.client}
    /\ LET own == IF transaction.client \in DOMAIN solo
                  THEN solo[transaction.client]
                  ELSE new(transaction.client) IN
       solo' = [c \in (DOMAIN solo) \cup {transaction.client} |->
                   IF c = transaction.client
                   THEN apply_transaction(own, transaction).acc
                   ELSE solo[c]]
    /\ UNCHANGED pc

\* The iterator is exhausted: collect() returns the error vector
collect ==
    /\ pc = "iter"
    /\ pc' = "done"
    /\ UNCHANGED <<accounts, entry, errs, last, lastRes, pre, prior, priorPre, results,
                   seen, solo>>

Next ==
    \/ \E transaction \in Transaction : apply_transactions_item(transaction)
    \/ collect

Spec == Init /\ [][Next]_vars

\* The transactions whose amount, when there is one, is positive
PositiveTransaction ==
    {t \in Transaction : t.amount.is_some => unwrap(t.amount) > 0}

\* Engine::apply_transactions over a batch of such transactions
NextPositive ==
    \/ \E transaction \in PositiveTransaction : apply_transactions_item(transaction)
    \/ collect

SpecPositive == Init /\ [][NextPositive]_vars

\* ------------------------------------------------------------ properties
\* A transaction has gone through apply_transaction in the latest step
Applied == last.type # "NoTx"

\* The account the latest transaction was applied to, after the call
Cur == accounts[last.client]

\* The records that refer to an earlier transaction
Referring == {"Dispute", "Resolve", "Chargeback"}

\* The step before the latest disputed tx, a Deposit tracked by the then
\* unlocked account, and the latest step names the same client and tx
DisputedDepositThen(type) ==
    /\ prior.type = "Dispute"
    /\ ~priorPre.locked
    /\ prior.tx \in DOMAIN priorPre.transactions
    /\ priorPre.transactions[prior.tx].type = "Deposit"
    /\ last.type = type
    /\ last.client = prior.client
    /\ last.tx = prior.tx

\* C1: in every reachable state, every account has total = available + held.
TotalIsAvailablePlusHeld ==
    \A c \in DOMAIN accounts :
        accounts[c].total = accounts[c].available + accounts[c].held

\* C1 witness: an account with funds held and a negative available balance,
\* in a batch where some transaction has failed.
TotalIsAvailablePlusHeldWitness ==
    /\ errs # <<>>
    /\ \E c \in DOMAIN accounts :
        /\ accounts[c].held > 0
        /\ accounts[c].available < 0
        /\ accounts[c].total = accounts[c].available + accounts[c].held

\* C2: a step never changes a locked account (so locked stays true), and
\* every transaction applied to a locked account returns AccountLocked.
LockedRejectsEverything ==
    [][\A c \in DOMAIN accounts :
          accounts[c].locked =>
              /\ c \in DOMAIN accounts'
              /\ accounts'[c] = accounts[c]
              /\ (entry' # entry /\ last'.client = c => lastRes' = AccountLocked)]_vars

\* C2 witness: a Dispute, Resolve or Chargeback naming a tx the locked account
\* still tracks was refused with AccountLocked and changed nothing.
LockedRejectsEverythingWitness ==
    /\ Applied
    /\ pre.locked
    /\ last.type \in Referring
    /\ last.tx \in DOMAIN pre.transactions
    /\ lastRes = AccountLocked
    /\ Cur = pre

\* C3: a Withdrawal of more than available on an unlocked account returns
\* InsufficientFunds(requested, available) and leaves the account as it was.
WithdrawalInsufficientFunds ==
    (/\ Applied
     /\ ~pre.locked
     /\ last.type = "Withdrawal"
     /\ last.amount.is_some
     /\ unwrap(last.amount) > pre.available)
    => /\ lastRes = InsufficientFunds(unwrap(last.amount), pre.available)
       /\ Cur = pre

\* C3 witness: a Withdrawal refused on an account that has funds held, a
\* non-zero available balance and tracked transactions.
WithdrawalInsufficientFundsWitness ==
    /\ Applied
    /\ ~pre.locked
    /\ last.type = "Withdrawal"
    /\ last.amount.is_some
    /\ unwrap(last.amount) > pre.available
    /\ pre.available # 0
    /\ pre.held # 0
    /\ DOMAIN pre.transactions # {}
    /\ lastRes.kind = "InsufficientFunds"

\* C4: Dispute(tx) then Resolve(tx) on a tracked Deposit of an unlocked account
\* restores available, held and total to their values before the Dispute.
DisputeResolveRoundTrip ==
    DisputedDepositThen("Resolve")
    => /\ Cur.available = priorPre.available
       /\ Cur.held = priorPre.held
       /\ Cur.total = priorPre.total

\* C4 witness: the round trip happened on a Deposit of a non-zero amount, and
\* the Dispute had moved the balances.
DisputeResolveRoundTripWitness ==
    /\ DisputedDepositThen("Resolve")
    /\ unwrap(priorPre.transactions[prior.tx].amount) # 0
    /\ pre.held # priorPre.held
    /\ pre.available # priorPre.available
    /\ Cur.held = priorPre.held

\* C5: Dispute(tx) on a tracked Deposit of amount a moves a into held; the
\* Chargeback(tx) that follows locks the account, returns held to its value
\* before the Dispute, leaves total at the earlier total minus a and untracks
\* tx; no later step changes a locked account.
DisputeChargebackFinal ==
    /\ [](DisputedDepositThen("Chargeback")
          => LET a == unwrap(priorPre.transactions[prior.tx].amount) IN
             /\ pre.held = priorPre.held + a
             /\ pre.available = priorPre.available - a
             /\ Cur.locked
             /\ Cur.held = priorPre.held
             /\ Cur.total = priorPre.total - a
             /\ last.tx \notin DOMAIN Cur.transactions)
    /\ [][\A c \in DOMAIN accounts :
             accounts[c].locked =>
                 c \in DOMAIN accounts' /\ accounts'[c] = accounts[c]]_vars

\* C5 witness: a Deposit of a non-zero amount was disputed and then charged
\* back, and the account is locked.
DisputeChargebackFinalWitness ==
    /\ DisputedDepositThen("Chargeback")
    /\ unwrap(priorPre.transactions[prior.tx].amount) # 0
    /\ pre.held # priorPre.held
    /\ Cur.locked
    /\ Cur.total # priorPre.total

\* C6: a Dispute, Resolve or Chargeback naming a tx the unlocked account does
\* not track returns Ok, leaves the account as it was, and puts no pair for
\* its entry in the error vector.
UnknownTxIsNoOp ==
    (/\ Applied
     /\ ~pre.locked
     /\ last.type \in Referring
     /\ last.tx \notin DOMAIN pre.transactions)
    => /\ lastRes = Ok
       /\ Cur = pre
       /\ \A i \in 1..Len(errs) : errs[i][1] # entry

\* C6 witness: a Chargeback named a tx tracked only by another client's
\* account, on an account that holds funds.
UnknownTxIsNoOpWitness ==
    /\ Applied
    /\ ~pre.locked
    /\ last.type = "Chargeback"
    /\ last.tx \notin DOMAIN pre.transactions
    /\ pre.available # 0
    /\ \E c \in DOMAIN accounts :
          c # last.client /\ last.tx \in DOMAIN accounts[c].transactions
    /\ Cur = pre

\* The (i, error) pairs of the failing positions of rs from position i on,
\* in increasing order of i
RECURSIVE ErrPairsFrom(_, _)
ErrPairsFrom(rs, i) ==
    IF i > Len(rs) THEN <<>>
    ELSE IF rs[i] = Ok THEN ErrPairsFrom(rs, i + 1)
         ELSE <<<<i, rs[i]>>>> \o ErrPairsFrom(rs, i + 1)

\* C7: the error vector is exactly the (i, error) pairs, 1-based and in
\* increasing order, of the entries whose apply_transaction call failed, and
\* every entry consumed so far has gone through apply_transaction.
ErrsAreFailingEntries ==
    /\ Len(results) = entry
    /\ errs = ErrPairsFrom(results, 1)

\* C7 witness: the batch is collected, its first entry failed, a later entry
\* failed too, and the last entry was applied and changed its account.
ErrsAreFailingEntriesWitness ==
    /\ pc = "done"
    /\ Len(errs) >= 2
    /\ errs[1][1] = 1
    /\ lastRes = Ok
    /\ Cur # pre

\* C8: a Deposit carrying amount a on an unlocked account returns Ok, adds a to
\* available and to total, leaves held and locked alone, and maps its tx to
\* the deposit record, every other tracked entry staying as it was.
DepositEffect ==
    (/\ Applied
     /\ ~pre.locked
     /\ last.type = "Deposit"
     /\ last.amount.is_some)
    => LET a == unwrap(last.amount) IN
       /\ lastRes = Ok
       /\ Cur.available = pre.available + a
       /\ Cur.total = pre.total + a
       /\ Cur.held = pre.held
       /\ Cur.locked = pre.locked
       /\ Cur.client = pre.client
       /\ DOMAIN Cur.transactions = DOMAIN pre.transactions \cup {last.tx}
       /\ Cur.transactions[last.tx] = last
       /\ \A k \in DOMAIN pre.transactions \ {last.tx} :
              Cur.transactions[k] = pre.transactions[k]

\* C8 witness: the Deposit overwrote a different record tracked under the
\* same tx while another entry was tracked.
DepositEffectWitness ==
    /\ Applied
    /\ ~pre.locked
    /\ last.type = "Deposit"
    /\ last.amount.is_some
    /\ unwrap(last.amount) # 0
    /\ last.tx \in DOMAIN pre.transactions
    /\ pre.transactions[last.tx] # last
    /\ DOMAIN pre.transactions # {last.tx}
    /\ lastRes = Ok

\* C9: a Withdrawal carrying amount a <= available on an unlocked account
\* returns Ok, takes a from available and from total, leaves held and locked
\* alone, tracks the withdrawal under its tx, and leaves available >= 0.
WithdrawalEffect ==
    (/\ Applied
     /\ ~pre.locked
     /\ last.type = "Withdrawal"
     /\ last.amount.is_some
     /\ unwrap(last.amount) <= pre.available)
    => LET a == unwrap(last.amount) IN
       /\ lastRes = Ok
       /\ Cur.available = pre.available - a
       /\ Cur.total = pre.total - a
       /\ Cur.held = pre.held
       /\ Cur.locked = pre.locked
       /\ Cur.client = pre.client
       /\ DOMAIN Cur.transactions = DOMAIN pre.transactions \cup {last.tx}
       /\ Cur.transactions[last.tx] = last
       /\ \A k \in DOMAIN pre.transactions \ {last.tx} :
              Cur.transactions[k] = pre.transactions[k]
       /\ Cur.available >= 0

\* C9 witness: the whole available balance, non-zero, was withdrawn.
WithdrawalEffectWitness ==
    /\ Applied
    /\ ~pre.locked
    /\ last.type = "Withdrawal"
    /\ last.amount.is_some
    /\ unwrap(last.amount) = pre.available
    /\ pre.available # 0
    /\ lastRes = Ok
    /\ Cur.available = 0

\* C10: a Deposit or Withdrawal without an amount on an unlocked account
\* returns MissingAmount and leaves the account as it was.
MissingAmountIsNoOp ==
    (/\ Applied
     /\ ~pre.locked
     /\ last.type \in {"Deposit", "Withdrawal"}
     /\ ~last.amount.is_some)
    => /\ lastRes = MissingAmount
       /\ Cur = pre

\* C10 witness: a Deposit without an amount was refused on an account that
\* has funds and tracked transactions, and its tx is not tracked.
MissingAmountIsNoOpWitness ==
    /\ Applied
    /\ ~pre.locked
    /\ last.type = "Deposit"
    /\ ~last.amount.is_some
    /\ pre.available # 0
    /\ DOMAIN pre.transactions # {}
    /\ last.tx \notin DOMAIN Cur.transactions
    /\ lastRes = MissingAmount

\* C11: a Dispute on a tx of amount a tracked by an unlocked account adds a to
\* held and keeps every tracked entry; for a Deposit it takes a from available
\* and leaves total alone, for a Withdrawal it adds a to total and leaves
\* available alone; locked is unchanged.
DisputeEffect ==
    (/\ Applied
     /\ ~pre.locked
     /\ last.type = "Dispute"
     /\ last.tx \in DOMAIN pre.transactions)
    => LET t == pre.transactions[last.tx]
           a == unwrap(t.amount) IN
       /\ lastRes = Ok
       /\ Cur.held = pre.held + a
       /\ Cur.transactions = pre.transactions
       /\ Cur.locked = pre.locked
       /\ (t.type = "Deposit" =>
              Cur.available = pre.available - a /\ Cur.total = pre.total)
       /\ (t.type = "Withdrawal" =>
              Cur.total = pre.total + a /\ Cur.available = pre.available)

\* C11 witness: a tracked Withdrawal of a non-zero amount was disputed while
\* a Deposit was tracked too, and total rose with held.
DisputeEffectWitness ==
    /\ Applied
    /\ ~pre.locked
    /\ last.type = "Dispute"
    /\ last.tx \in DOMAIN pre.transactions
    /\ pre.transactions[last.tx].type = "Withdrawal"
    /\ unwrap(pre.transactions[last.tx].amount) # 0
    /\ \E k \in DOMAIN pre.transactions : pre.transactions[k].type = "Deposit"
    /\ Cur.total # pre.total
    /\ Cur.held # pre.held

\* The two accounts have the same balances and the same locked flag
SameFunds(a, b) ==
    /\ a.available = b.available
    /\ a.held = b.held
    /\ a.total = b.total
    /\ a.locked = b.locked

\* C12: a Resolve or Chargeback applied to a tracked tx untracks it; a tx that
\* is not tracked stays untracked until a Deposit or Withdrawal carries it
\* again, and a Dispute, Resolve or Chargeback naming it changes no balance
\* and no flag.
TerminalIsUntracked ==
    /\ []((/\ Applied
           /\ ~pre.locked
           /\ last.type \in {"Resolve", "Chargeback"}
           /\ last.tx \in DOMAIN pre.transactions)
          => last.tx \notin DOMAIN Cur.transactions)
    /\ [][\A c \in DOMAIN accounts : \A tx \in TxIds :
             tx \notin DOMAIN accounts[c].transactions =>
                 /\ c \in DOMAIN accounts'
                 /\ (~(/\ entry' # entry
                       /\ last'.client = c
                       /\ last'.tx = tx
                       /\ last'.type \in {"Deposit", "Withdrawal"})
                     => tx \notin DOMAIN accounts'[c].transactions)
                 /\ ((/\ entry' # entry
                      /\ last'.client = c
                      /\ last'.tx = tx
                      /\ last'.type \in Referring)
                     => SameFunds(accounts'[c], accounts[c]))]_vars

\* C12 witness: a tx of a non-zero amount was resolved, and the Dispute of the
\* same tx that followed left the account, which has funds, as it was.
TerminalIsUntrackedWitness ==
    /\ prior.type = "Resolve"
    /\ ~priorPre.locked
    /\ prior.tx \in DOMAIN priorPre.transactions
    /\ unwrap(priorPre.transactions[prior.tx].amount) # 0
    /\ last.type = "Dispute"
    /\ last.client = prior.client
    /\ last.tx = prior.tx
    /\ last.tx \notin DOMAIN pre.transactions
    /\ pre.available # 0
    /\ Cur = pre

\* The map m without key k, every other entry as in m
Without(after, m, k) ==
    /\ DOMAIN after = DOMAIN m \ {k}
    /\ \A x \in DOMAIN after : after[x] = m[x]

\* C13: a Chargeback on a Withdrawal tracked by an unlocked account returns Ok,
\* leaves available, held and total alone and locked false, and only takes
\* the withdrawal's entry out of the map.
ChargebackWithdrawalNoEffect ==
    (/\ Applied
     /\ ~pre.locked
     /\ last.type = "Chargeback"
     /\ last.tx \in DOMAIN pre.transactions
     /\ pre.transactions[last.tx].type = "Withdrawal")
    => /\ lastRes = Ok
       /\ SameFunds(Cur, pre)
       /\ ~Cur.locked
       /\ Cur.client = pre.client
       /\ Without(Cur.transactions, pre.transactions, last.tx)

\* C13 witness: a Withdrawal of a non-zero amount, under dispute (funds are
\* held), was charged back while another entry was tracked.
ChargebackWithdrawalNoEffectWitness ==
    /\ Applied
    /\ ~pre.locked
    /\ last.type = "Chargeback"
    /\ last.tx \in DOMAIN pre.transactions
    /\ pre.transactions[last.tx].type = "Withdrawal"
    /\ unwrap(pre.transactions[last.tx].amount) # 0
    /\ pre.held # 0
    /\ DOMAIN Cur.transactions # {}
    /\ ~Cur.locked

\* The step before the latest disputed tx, a Withdrawal tracked by the then
\* unlocked account, and the latest step names the same client and tx
DisputedWithdrawalThen(type) ==
    /\ prior.type = "Dispute"
    /\ ~priorPre.locked
    /\ prior.tx \in DOMAIN priorPre.transactions
    /\ priorPre.transactions[prior.tx].type = "Withdrawal"
    /\ last.type = type
    /\ last.client = prior.client
    /\ last.tx = prior.tx

\* C14: Dispute(tx) on a tracked Withdrawal of amount a raises held and total
\* by a; the Resolve(tx) that follows returns held to its value before the
\* Dispute, leaves total and available at their earlier values plus a, and
\* takes only tx out of the map.
DisputeResolveWithdrawal ==
    DisputedWithdrawalThen("Resolve")
    => LET a == unwrap(priorPre.transactions[prior.tx].amount) IN
       /\ pre.held = priorPre.held + a
       /\ pre.total = priorPre.total + a
       /\ Cur.held = priorPre.held
       /\ Cur.total = priorPre.total + a
       /\ Cur.available = priorPre.available + a
       /\ Without(Cur.transactions, priorPre.transactions, last.tx)

\* C14 witness: a Withdrawal of a non-zero amount was disputed and resolved
\* while the Deposit that funded it stayed tracked.
DisputeResolveWithdrawalWitness ==
    /\ DisputedWithdrawalThen("Resolve")
    /\ unwrap(priorPre.transactions[prior.tx].amount) # 0
    /\ pre.held # priorPre.held
    /\ Cur.available # priorPre.available
    /\ \E k \in DOMAIN Cur.transactions : Cur.transactions[k].type = "Deposit"

\* C15: a step changes no account but the one of the client of the transaction
\* it applies, and every account equals Account::new(client) after that
\* client's transactions alone, applied in batch order.
AccountsAreIndependent ==
    /\ [](/\ DOMAIN accounts = DOMAIN solo
          /\ \A c \in DOMAIN accounts : accounts[c] = solo[c])
    /\ [][\A c \in DOMAIN accounts :
             (entry' = entry \/ last'.client # c)
             => c \in DOMAIN accounts' /\ accounts'[c] = accounts[c]]_vars

\* C15 witness: the batch interleaved two clients, the latest transaction
\* changed its client's account, and the other client's account holds funds
\* and tracks a transaction.
AccountsAreIndependentWitness ==
    /\ Applied
    /\ Cur # pre
    /\ prior.type # "NoTx"
    /\ prior.client # last.client
    /\ entry >= 3
    /\ \E c \in DOMAIN accounts :
          /\ c # last.client
          /\ accounts[c].total # 0
          /\ DOMAIN accounts[c].transactions # {}
          /\ accounts[c] = solo[c]
    /\ Cur = solo[last.client]

\* C16: the map holds an account for exactly the clients seen so far in the
\* batch, each under its own client identifier; a step removes no account,
\* adds at most the account of the client it serves, applies the transaction
\* to the account already in the map when there is one, and otherwise to an
\* account with zero balances, unlocked and tracking nothing.
OneAccountPerClient ==
    /\ [](/\ DOMAIN accounts = seen
          /\ \A c \in DOMAIN accounts : accounts[c].client = c)
    /\ [][/\ DOMAIN accounts \subseteq DOMAIN accounts'
          /\ (entry' # entry =>
                 /\ DOMAIN accounts' = DOMAIN accounts \cup {last'.client}
                 /\ IF last'.client \in DOMAIN accounts
                    THEN pre' = accounts[last'.client]
                    ELSE pre' = [client |-> last'.client, available |-> 0,
                                 held |-> 0, total |-> 0, locked |-> FALSE,
                                 transactions |-> <<>>])]_vars

\* C16 witness: a client whose transactions have all failed has an account
\* with zero balances, next to the account of another client that was used
\* again and holds funds.
OneAccountPerClientWitness ==
    /\ Applied
    /\ lastRes # Ok
    /\ Cur.available = 0 /\ Cur.held = 0 /\ Cur.total = 0
    /\ ~Cur.locked
    /\ DOMAIN Cur.transactions = {}
    /\ \E c \in DOMAIN accounts :
          /\ c # last.client
          /\ Cardinality(DOMAIN accounts[c].transactions) = 2
          /\ accounts[c].total # 0
    /\ DOMAIN accounts = seen

\* C17: locked goes from false (or from no account) to true only in a step
\* that applies a Chargeback of that client to a Deposit the account tracks.
OnlyDepositChargebackLocks ==
    [][\A c \in DOMAIN accounts' :
          (accounts'[c].locked /\ (c \in DOMAIN accounts => ~accounts[c].locked))
          => /\ entry' # entry
             /\ last'.type = "Chargeback"
             /\ last'.client = c
             /\ c \in DOMAIN accounts
             /\ last'.tx \in DOMAIN accounts[c].transactions
             /\ accounts[c].transactions[last'.tx].type = "Deposit"]_vars

\* C17 witness: an account that tracked a Withdrawal and a Deposit, with the
\* Withdrawal charged back first without locking, was locked by the
\* Chargeback of the Deposit.
OnlyDepositChargebackLocksWitness ==
    /\ Applied
    /\ ~pre.locked
    /\ Cur.locked
    /\ last.type = "Chargeback"
    /\ last.tx \in DOMAIN pre.transactions
    /\ pre.transactions[last.tx].type = "Deposit"
    /\ prior.type = "Chargeback"
    /\ prior.client = last.client
    /\ prior.tx \in DOMAIN priorPre.transactions
    /\ priorPre.transactions[prior.tx].type = "Withdrawal"

\* C18: every tracked entry is filed under its own tx, is a Deposit or a
\* Withdrawal of the account's client and carries an amount, so the unwrap
\* of a tracked record's amount always finds a value.
TrackedEntriesAreWellFormed ==
    \A c \in DOMAIN accounts : \A k \in DOMAIN accounts[c].transactions :
        LET t == accounts[c].transactions[k] IN
        /\ t.tx = k
        /\ t.type \in {"Deposit", "Withdrawal"}
        /\ t.client = c
        /\ t.amount.is_some

\* C18 witness: a Dispute, Resolve or Chargeback read the amount of a tracked
\* record, in a batch of one client where a record without amount was refused.
TrackedEntriesAreWellFormedWitness ==
    /\ Applied
    /\ ~pre.locked
    /\ last.type \in Referring
    /\ last.tx \in DOMAIN pre.transactions
    /\ pre.transactions[last.tx].amount.is_some
    /\ Cur # pre
    /\ \E i \in 1..Len(results) : results[i] = MissingAmount
    /\ seen = {last.client}

\* C19: in every state reached by transactions with positive amounts, no
\* account has negative held funds.
HeldNeverNegative ==
    \A c \in DOMAIN accounts : accounts[c].held >= 0

\* C20: a Dispute of a tracked tx that follows a Dispute of the same tx on the
\* same unlocked account leaves available, held and total as the first left
\* them.
DisputeIsIdempotent ==
    (/\ prior.type = "Dispute"
     /\ ~priorPre.locked
     /\ prior.tx \in DOMAIN priorPre.transactions
     /\ last.type = "Dispute"
     /\ last.client = prior.client
     /\ last.tx = prior.tx)
    => /\ Cur.available = pre.available
       /\ Cur.held = pre.held
       /\ Cur.total = pre.total

====
